---------------------------- MODULE Spec2Model ----------------------------
(***************************************************************************)
(* A model of sngjoo/AutoTrading: the minute-bar chart builder             *)
(* (bot/chart_builder.py), the moving-average break-out signals            *)
(* (bot/trading_strategy.py) and the tick handlers of the stock and the    *)
(* futures trader (bot/trader_stock.py, bot/trader_future.py).             *)
(*                                                                         *)
(* The chart (a pandas DataFrame) is a sequence of rows.  A row has the    *)
(* columns date, time, position and, for every code of the trade universe, *)
(* open_<code>, high_<code>, low_<code>, close_<code> (field ohlc[code]).  *)
(* A missing float (numpy NaN) is the value NaN; every comparison with it  *)
(* is false, as in Python.  Python's False in the position column is the   *)
(* string "False".  Prices are integers (quotes in ticks).                 *)
(***************************************************************************)
EXTENDS Integers, Sequences, FiniteSets, TLC

VARIABLES
    market,      \* "stock" (trader_stock) or "future" (trader_future)
    chart,       \* chart_builder.chart
    stack,       \* OnReceived calls suspended inside request(), innermost last
    orders,      \* the orders handed to _order_stock / _order_future, in order
    subscribed,  \* the current-price and expected-price streams deliver ticks
    stops,       \* number of calls of DataStream.stop
    nticks,      \* number of operations applied so far (bounded)
    last         \* what the last operation did (history, read by the properties)

vars == <<market, chart, stack, orders, subscribed, stops, nticks, last>>

----------------------------------------------------------------------------
(* The trade universe and the values ticks are drawn from.                 *)

Codes == {"c1", "c2"}

Today == "20230101"

NaN == -1

NoPosition == "False"

IsNaN(x) == x = NaN

\* Python's a < b on floats: false when either side is NaN.
Lt(a, b) == a # NaN /\ b # NaN /\ a < b

Gt(a, b) == Lt(b, a)

AllNaN == [open |-> NaN, high |-> NaN, low |-> NaN, close |-> NaN]

AllPrice(p) == [open |-> p, high |-> p, low |-> p, close |-> p]

----------------------------------------------------------------------------
(* Session window: get_start_and_end_time, with the offsets of the         *)
(* futures classes.                                                        *)

StockStart == 900

StockEnd == 1530

FutureOffset == 15

start_time(m) == IF m = "future" THEN StockStart - FutureOffset ELSE StockStart

end_time(m) == IF m = "future" THEN StockEnd + FutureOffset ELSE StockEnd

----------------------------------------------------------------------------
(* ChartBuilder.realtime_chart_builder                                     *)

MutBucketNoRoll(time, endt) ==
    LET hhmm == time \div 100
    IN  IF hhmm >= endt THEN endt ELSE hhmm + 1

\* lines 61-68: the bucket (hhmm) a tick of time hhmmss is recorded in
Bucket(time, endt) ==
    LET hhmm == time \div 100
    IN  IF hhmm >= endt THEN endt
        ELSE IF hhmm % 100 = 59 THEN (hhmm \div 100 + 1) * 100
        ELSE hhmm + 1

\* RowNow looking at the last row only
MutRowNowLastOnly(ch, date, hhmm) ==
    {i \in {Len(ch)} : ch[i].date = date /\ ch[i].time = hhmm}

\* line 70: chart.query("date == '<date>' and time == <hhmm>"), as row numbers
RowNow(ch, date, hhmm) ==
    {i \in 1..Len(ch) : ch[i].date = date /\ ch[i].time = hhmm}

\* lines 70-74 fail on a chart without rows (pd.DataFrame() has no column
\* date, no last index label and no position column)
ChartRaises(ch) == Len(ch) = 0

\* NewRow with the position column left at its default instead of copied
MutNewRowNoPosition(ch, date, hhmm, code, cur_price) ==
    [date     |-> date,
     time     |-> hhmm,
     position |-> NoPosition,
     ohlc     |-> [c \in Codes |-> IF c = code THEN AllPrice(cur_price) ELSE AllNaN]]

\* lines 77-80: the row appended for the first trade of a minute
NewRow(ch, date, hhmm, code, cur_price) ==
    [date     |-> date,
     time     |-> hhmm,
     position |-> ch[Len(ch)].position,
     ohlc     |-> [c \in Codes |-> IF c = code THEN AllPrice(cur_price) ELSE AllNaN]]

\* UpdatedCell without the update of the high price
MutUpdatedCellKeepsHigh(cell, cur_price) ==
    [open  |-> cell.open,
     high  |-> cell.high,
     low   |-> IF Gt(cell.low, cur_price) THEN cur_price ELSE cell.low,
     close |-> cur_price]

\* lines 89-101: close, high and low of the last row
UpdatedCell(cell, cur_price) ==
    [open  |-> cell.open,
     high  |-> IF Lt(cell.high, cur_price) THEN cur_price ELSE cell.high,
     low   |-> IF Gt(cell.low, cur_price) THEN cur_price ELSE cell.low,
     close |-> cur_price]

\* which of the three branches of lines 77-101 runs
Branch(ch, endt, date, code, time) ==
    LET rownow == RowNow(ch, date, Bucket(time, endt))
    IN  IF rownow = {} THEN "append"
        ELSE IF Cardinality(rownow) = 1 /\ IsNaN(ch[Len(ch)].ohlc[code].open)
             THEN "populate"
        ELSE "update"

\* realtime_chart_builder writing the tick's bucket into the row it updates
MutBuilderRewritesTime(ch, endt, date, code, time, cur_price) ==
    LET hhmm   == Bucket(time, endt)
        n      == Len(ch)
        branch == Branch(ch, endt, date, code, time)
    IN  IF branch = "append"
        THEN Append(ch, NewRow(ch, date, hhmm, code, cur_price))
        ELSE IF branch = "populate"
        THEN [ch EXCEPT ![n].ohlc[code] = AllPrice(cur_price), ![n].time = hhmm]
        ELSE [ch EXCEPT ![n].ohlc[code] = UpdatedCell(@, cur_price), ![n].time = hhmm]

\* realtime_chart_builder with target_cols holding the price columns of every
\* instrument
MutBuilderWritesAllCodes(ch, endt, date, code, time, cur_price) ==
    LET hhmm   == Bucket(time, endt)
        n      == Len(ch)
        branch == Branch(ch, endt, date, code, time)
    IN  IF branch = "append"
        THEN Append(ch, NewRow(ch, date, hhmm, code, cur_price))
        ELSE IF branch = "populate"
        THEN [ch EXCEPT ![n].ohlc = [c \in Codes |-> AllPrice(cur_price)]]
        ELSE [ch EXCEPT ![n].ohlc = [c \in Codes |-> UpdatedCell(@[c], cur_price)]]

\* the chart after realtime_chart_builder(date, code, time, cur_price), for a
\* chart with at least one row
realtime_chart_builder(ch, endt, date, code, time, cur_price) ==
    LET hhmm   == Bucket(time, endt)
        n      == Len(ch)
        branch == Branch(ch, endt, date, code, time)
    IN  IF branch = "append"
        THEN Append(ch, NewRow(ch, date, hhmm, code, cur_price))
        ELSE IF branch = "populate"
        THEN [ch EXCEPT ![n].ohlc[code] = AllPrice(cur_price)]
        ELSE [ch EXCEPT ![n].ohlc[code] = UpdatedCell(@, cur_price)]

----------------------------------------------------------------------------
(* StockMovingAverageBreakOutStrategy.buy_signal and sell_signal           *)

\* chart[f"<field>_<code>"]: one column, as a sequence
Column(ch, field, code) == [i \in 1..Len(ch) |-> ch[i].ohlc[code][field]]

\* s[a:b] for negative a and b (positions counted from the end, cut at 0)
PySlice(s, a, b) ==
    LET n  == Len(s)
        lo == IF n + a < 0 THEN 0 ELSE n + a
        hi == IF n + b < 0 THEN 0 ELSE n + b
    IN  SubSeq(s, lo + 1, hi)

NumbersOf(s) == {s[i] : i \in 1..Len(s)} \ {NaN}

\* Python's min(s) of a non-empty s: it starts from s[0] and replaces it by a
\* later item x when x < it.  No x is < NaN, so a NaN at the front stays; a
\* NaN further on is never < the item kept and is passed over.
PyMin(s) ==
    IF IsNaN(s[1]) THEN NaN
    ELSE CHOOSE v \in NumbersOf(s) : \A w \in NumbersOf(s) : v <= w

\* Python's max(s), likewise with x > it
PyMax(s) ==
    IF IsNaN(s[1]) THEN NaN
    ELSE CHOOSE v \in NumbersOf(s) : \A w \in NumbersOf(s) : v >= w

\* min() and max() of an empty slice raise ValueError; the lists of
\* conditions are built whole, so every window is evaluated
SignalRaises(ch, code) ==
    \/ PySlice(Column(ch, "low", code), -121, -1) = <<>>
    \/ PySlice(Column(ch, "high", code), -76, -1) = <<>>
    \/ PySlice(Column(ch, "low", code), -361, -1) = <<>>

\* buy_conditions without the market closing filter
MutBuyWithoutCloseFilter(ch, code, cur_price, cur_time, m) ==
    LET low  == Column(ch, "low", code)
        high == Column(ch, "high", code)
    IN  << cur_time \div 100 > start_time(m) + 130,
           TRUE,
           Gt(PyMin(PySlice(low, -121, -1)), PyMin(PySlice(low, -361, -1))),
           Gt(PyMin(PySlice(high, -76, -1)), PyMin(PySlice(high, -361, -1))),
           Gt(cur_price, PyMax(PySlice(high, -121, -1))) >>

\* buy_conditions with the low trend taken over the last 75 completed bars
MutBuyShortLowWindow(ch, code, cur_price, cur_time, m) ==
    LET low  == Column(ch, "low", code)
        high == Column(ch, "high", code)
    IN  << cur_time \div 100 > start_time(m) + 130,
           cur_time \div 100 < end_time(m) - 10,
           Gt(PyMin(PySlice(low, -76, -1)), PyMin(PySlice(low, -361, -1))),
           Gt(PyMin(PySlice(high, -76, -1)), PyMin(PySlice(high, -361, -1))),
           Gt(cur_price, PyMax(PySlice(high, -121, -1))) >>

\* trading_strategy.py lines 71-77
buy_conditions(ch, code, cur_price, cur_time, m) ==
    LET low  == Column(ch, "low", code)
        high == Column(ch, "high", code)
    IN  << cur_time \div 100 > start_time(m) + 130,
           cur_time \div 100 < end_time(m) - 10,
           Gt(PyMin(PySlice(low, -121, -1)), PyMin(PySlice(low, -361, -1))),
           Gt(PyMin(PySlice(high, -76, -1)), PyMin(PySlice(high, -361, -1))),
           Gt(cur_price, PyMax(PySlice(high, -121, -1))) >>

\* lines 81-83: all(conditions)
buy_signal(ch, code, cur_price, cur_time, m) ==
    LET conditions == buy_conditions(ch, code, cur_price, cur_time, m)
    IN  \A k \in 1..Len(conditions) : conditions[k]

\* cur_price < x * 0.96, in hundredths (prices are integers)
BelowDrawdown(cur_price, x) == x # NaN /\ 100 * cur_price < 96 * x

\* sell_conditions without the market closing sell
MutSellWithoutClose(ch, code, cur_price, cur_time, m) ==
    LET low  == Column(ch, "low", code)
        high == Column(ch, "high", code)
    IN  << FALSE,
           Lt(cur_price, PyMin(PySlice(low, -121, -1))),
           BelowDrawdown(cur_price, PyMax(PySlice(high, -121, -1))) >>

\* lines 105-109
sell_conditions(ch, code, cur_price, cur_time, m) ==
    LET low  == Column(ch, "low", code)
        high == Column(ch, "high", code)
    IN  << cur_time \div 100 > end_time(m) - 10,
           Lt(cur_price, PyMin(PySlice(low, -121, -1))),
           BelowDrawdown(cur_price, PyMax(PySlice(high, -121, -1))) >>

\* lines 111-113: any(conditions)
sell_signal(ch, code, cur_price, cur_time, m) ==
    LET conditions == sell_conditions(ch, code, cur_price, cur_time, m)
    IN  \E k \in 1..Len(conditions) : conditions[k]

----------------------------------------------------------------------------
(* History record of the last operation.                                   *)

NoOp ==
    [name   |-> "init", code  |-> "", timess  |-> 0, cprice |-> 0, mtype |-> 0,
     branch |-> "",     rows  |-> 0,  changed |-> FALSE,
     signal |-> "none", fired |-> FALSE, raised |-> "", halted |-> FALSE,
     endt   |-> 0,      hhmm  |-> 0,  held    |-> "",
     universe |-> <<>>, registered |-> {}, outcome |-> "",
     rc     |-> 0,      message |-> ""]

----------------------------------------------------------------------------
(* SpecChart: realtime_chart_builder applied to small charts, as the unit  *)
(* tests of tests/test_chart_builder.py do (the chart is assigned, then    *)
(* updates are applied in any time order).                                 *)

MaxUpdates == 2

Yesterday == "20221231"

UpdateTimes == {92959, 93059, 93100, 95959, 153000}

UpdatePrices == {1, 2, 3}

Positions == {NoPosition} \cup Codes

Bar(o, h, l, c) == [open |-> o, high |-> h, low |-> l, close |-> c]

\* the two rows of the test fixture (times 930 and 931), prices scaled down;
\* the second instrument has or has not traded in the last minute, and the
\* last row is of today or of the day before
FixtureChart(pos, date, cell2) ==
    << [date |-> date, time |-> 930, position |-> pos,
        ohlc |-> [c \in Codes |-> Bar(2, 3, 1, 2)]],
       [date |-> date, time |-> 931, position |-> pos,
        ohlc |-> [c \in Codes |-> IF c = "c1" THEN Bar(2, 2, 2, 2) ELSE cell2]] >>

FixtureCharts ==
    {<<>>} \cup
    {FixtureChart(pos, date, cell2) :
        pos \in {NoPosition, "c1"}, date \in {Today, Yesterday},
        cell2 \in {AllNaN, Bar(2, 2, 2, 2)}}

InitChart ==
    /\ market \in {"stock", "future"}
    /\ chart \in FixtureCharts
    /\ stack = <<>>
    /\ orders = <<>>
    /\ subscribed = TRUE
    /\ stops = 0
    /\ nticks = 0
    /\ last = NoOp

Update(code, time, cur_price) ==
    /\ nticks < MaxUpdates
    /\ nticks' = nticks + 1
    /\ IF ChartRaises(chart)
       THEN /\ chart' = chart
            /\ last' = [NoOp EXCEPT !.name = "update", !.code = code,
                            !.timess = time, !.cprice = cur_price,
                            !.raised = "Error"]
       ELSE /\ chart' = realtime_chart_builder(chart, end_time(market), Today,
                                               code, time, cur_price)
            /\ last' = [NoOp EXCEPT !.name = "update", !.code = code,
                            !.timess = time, !.cprice = cur_price,
                            !.rows = Len(chart),
                            !.branch = Branch(chart, end_time(market), Today,
                                              code, time),
                            !.changed = (chart' # chart)]
    /\ UNCHANGED <<market, stack, orders, subscribed, stops>>

NextChart ==
    \E code \in Codes, time \in UpdateTimes, cur_price \in UpdatePrices :
        Update(code, time, cur_price)

SpecChart == InitChart /\ [][NextChart]_vars

----------------------------------------------------------------------------
(* Spec: DataListener.OnReceived of trader_stock / trader_future, for one  *)
(* listener with one chart.                                                *)
(*                                                                         *)
(* Ticks are delivered by PumpWaitingMessages: by the runner's loop        *)
(* (examples/run_etf_trading.py:34-35) and, while a handler waits for the  *)
(* answer of a request, by the loop of BrokerageApiRequestHandler.request  *)
(* (brokerage_api_actions.py:111-121).  trade_stock and trade_future make  *)
(* two requests: the amount query, then the order.  A handler that trades  *)
(* is therefore suspended twice, and other handlers can run meanwhile; the *)
(* suspended handlers form a stack.  A stack entry holds the locals of the *)
(* handler and, for the properties, the number of rows and of orders at    *)
(* the time it evaluated the signal.                                       *)

MaxTicks == 2

MaxDepth == 2

BootstrapBars == 124

TickTimes(m) == {123456, end_time(m) * 100}

TickPrices == {2, 4}

ExpTimes == {153500, 153600}

MarketTypes == {30, 51}

ExpPrices == {2}

HHMM(minutes) == (minutes \div 60) * 100 + (minutes % 60)

\* The chart of _fetch_chart: minute bars, oldest first, the last one of
\* 12:35 today, every instrument traded in every minute, the position of
\* _current_position in every row.  Three bars, 121 to 123 minutes before
\* the last one, have lower lows and highs than the later ones.
BootstrapRow(i, pos) ==
    [date     |-> Today,
     time     |-> HHMM(12 * 60 + 35 - (BootstrapBars - i)),
     position |-> pos,
     ohlc     |-> [c \in Codes |->
                     IF i >= BootstrapBars - 123 /\ i <= BootstrapBars - 121
                     THEN Bar(2, 2, 1, 2) ELSE Bar(2, 3, 2, 3)]]

BootstrapChart(pos) == [i \in 1..BootstrapBars |-> BootstrapRow(i, pos)]

Init ==
    /\ market \in {"stock", "future"}
    /\ chart \in {BootstrapChart(pos) : pos \in {NoPosition, "c1"}}
    /\ stack = <<>>
    /\ orders = <<>>
    /\ subscribed = TRUE
    /\ stops = 0
    /\ nticks = 0
    /\ last = NoOp

\* the position column of the last row
Position(ch) == ch[Len(ch)].position

\* not chart.iloc[-1].isnull().any()
RowComplete(row) ==
    \A c \in Codes : \A f \in {"open", "high", "low", "close"} : row.ohlc[c][f] # NaN

\* trader_stock.py:77-80, trader_future.py:80-83
SessionOver(ch, timess, m) ==
    timess >= end_time(m) * 100 /\ RowComplete(ch[Len(ch)])

MutChartAlwaysUpdated(prior_chart, ch) == TRUE

\* not prior_chart.equals(chart)
ChartUpdated(prior_chart, ch) == prior_chart # ch

MutConsultedAnyHeld(position, code) ==
    IF position = NoPosition THEN "buy" ELSE "sell"

\* which signal lines 65-74 consult for a tick of code
Consulted(position, code) ==
    IF position = NoPosition THEN "buy"
    ELSE IF position = code THEN "sell"
    ELSE "none"

\* the arguments of trade_stock / trade_future
TradeCall(m, side, code) ==
    [side    |-> side,
     code    |-> code,
     buysell |-> IF m = "stock" /\ side = "exit" THEN "1" ELSE "2",
     flag    |-> IF m = "stock" THEN "" ELSE IF side = "entry" THEN "entry" ELSE "clear"]

\* DataStream.stop
stop ==
    /\ subscribed' = FALSE
    /\ stops' = stops + 1

MutTickFailureEndsSession(code, timess, cprice) ==
    /\ subscribed
    /\ nticks < MaxTicks
    /\ Len(stack) < MaxDepth
    /\ nticks' = nticks + 1
    /\ UNCHANGED <<market, orders>>
    /\ LET rec == [NoOp EXCEPT !.name = "cur", !.code = code,
                       !.timess = timess, !.cprice = cprice, !.rows = Len(chart)]
       IN
       IF ChartRaises(chart)
       THEN /\ last' = [rec EXCEPT !.raised = "Error"]
            /\ UNCHANGED <<chart, stack>>
            /\ stop
       ELSE
       LET ch       == realtime_chart_builder(chart, end_time(market), Today,
                                              code, timess, cprice)
           branch   == Branch(chart, end_time(market), Today, code, timess)
           signal   == Consulted(Position(ch), code)
           raises   == signal # "none" /\ SignalRaises(ch, code)
           fired    == IF raises THEN FALSE
                       ELSE IF signal = "buy"
                            THEN buy_signal(ch, code, cprice, timess, market)
                       ELSE IF signal = "sell"
                            THEN sell_signal(ch, code, cprice, timess, market)
                       ELSE FALSE
           halt     == ~raises /\ ~fired /\ SessionOver(ch, timess, market)
       IN
       IF ~ChartUpdated(chart, ch)
       THEN /\ last' = [rec EXCEPT !.branch = branch]
            /\ UNCHANGED <<chart, stack, subscribed, stops>>
       ELSE /\ chart' = ch
            /\ last' = [rec EXCEPT !.branch = branch, !.changed = TRUE,
                            !.signal = signal, !.fired = fired,
                            !.raised = IF raises THEN "ValueError" ELSE "",
                            !.halted = halt]
            /\ stack' = IF fired
                        THEN Append(stack, [code |-> code, timess |-> timess,
                                            side |-> IF signal = "buy" THEN "entry"
                                                     ELSE "exit",
                                            pc |-> "amount",
                                            rows |-> Len(ch),
                                            norders |-> Len(orders)])
                        ELSE stack
            /\ IF halt \/ raises THEN stop ELSE UNCHANGED <<subscribed, stops>>

\* OnReceived, name "stockcur" / "futurecur": from the start to the first
\* request of trade_stock / trade_future, or to the end when it does not trade
CurTick(code, timess, cprice) ==
    /\ subscribed
    /\ nticks < MaxTicks
    /\ Len(stack) < MaxDepth
    /\ nticks' = nticks + 1
    /\ UNCHANGED <<market, orders>>
    /\ LET rec == [NoOp EXCEPT !.name = "cur", !.code = code,
                       !.timess = timess, !.cprice = cprice, !.rows = Len(chart)]
       IN
       IF ChartRaises(chart)
       THEN /\ last' = [rec EXCEPT !.raised = "Error"]
            /\ UNCHANGED <<chart, stack, subscribed, stops>>
       ELSE
       LET ch       == realtime_chart_builder(chart, end_time(market), Today,
                                              code, timess, cprice)
           branch   == Branch(chart, end_time(market), Today, code, timess)
           signal   == Consulted(Position(ch), code)
           raises   == signal # "none" /\ SignalRaises(ch, code)
           fired    == IF raises THEN FALSE
                       ELSE IF signal = "buy"
                            THEN buy_signal(ch, code, cprice, timess, market)
                       ELSE IF signal = "sell"
                            THEN sell_signal(ch, code, cprice, timess, market)
                       ELSE FALSE
           halt     == ~raises /\ ~fired /\ SessionOver(ch, timess, market)
       IN
       IF ~ChartUpdated(chart, ch)
       THEN /\ last' = [rec EXCEPT !.branch = branch]
            /\ UNCHANGED <<chart, stack, subscribed, stops>>
       ELSE /\ chart' = ch
            /\ last' = [rec EXCEPT !.branch = branch, !.changed = TRUE,
                            !.signal = signal, !.fired = fired,
                            !.raised = IF raises THEN "ValueError" ELSE "",
                            !.halted = halt]
            /\ stack' = IF fired
                        THEN Append(stack, [code |-> code, timess |-> timess,
                                            side |-> IF signal = "buy" THEN "entry"
                                                     ELSE "exit",
                                            pc |-> "amount",
                                            rows |-> Len(ch),
                                            norders |-> Len(orders)])
                        ELSE stack
            /\ IF halt THEN stop ELSE UNCHANGED <<subscribed, stops>>

\* the amount query of the innermost suspended handler returns (answered or
\* timed out), and _order_stock / _order_future sends the order
SendOrder ==
    /\ stack # <<>>
    /\ stack[Len(stack)].pc = "amount"
    /\ LET f == stack[Len(stack)]
       IN  /\ orders' = Append(orders, [call     |-> TradeCall(market, f.side, f.code),
                                        position |-> Position(chart)])
           /\ stack' = [stack EXCEPT ![Len(stack)].pc = "order"]
           /\ last' = [NoOp EXCEPT !.name = "order", !.code = f.code,
                           !.timess = f.timess]
    /\ UNCHANGED <<market, chart, subscribed, stops, nticks>>

\* how the order request ends: the answer arrives and reports the order as
\* accepted or as rejected (stop event, rc 0), or no answer arrives within the
\* wait (rc 258, request returns).  In all three request returns normally;
\* its last branch (raise RuntimeError) needs a wait result other than 0, 1
\* and 258, which the wait on one event handle does not produce.
RequestOutcomes == {"answered", "rejected", "timeout"}

MutTradeRollsBack(outcome) ==
    /\ stack # <<>>
    /\ stack[Len(stack)].pc = "order"
    /\ LET f    == stack[Len(stack)]
           ch   == IF outcome = "answered"
                   THEN [chart EXCEPT ![Len(chart)].position =
                            IF f.side = "entry" THEN f.code ELSE NoPosition]
                   ELSE chart
           halt == SessionOver(ch, f.timess, market)
       IN  /\ chart' = ch
           /\ stack' = SubSeq(stack, 1, Len(stack) - 1)
           /\ last' = [NoOp EXCEPT !.name = "return", !.code = f.code,
                           !.timess = f.timess, !.halted = halt,
                           !.outcome = outcome]
           /\ IF halt THEN stop ELSE UNCHANGED <<subscribed, stops>>
    /\ UNCHANGED <<market, orders, nticks>>

\* the order request returns: the handler writes the position into the last
\* row, whatever the outcome of the request (neither trade_stock nor
\* OnReceived inspects it), checks for the end of the session and returns
TradeReturns(outcome) ==
    /\ stack # <<>>
    /\ stack[Len(stack)].pc = "order"
    /\ LET f    == stack[Len(stack)]
           ch   == [chart EXCEPT ![Len(chart)].position =
                       IF f.side = "entry" THEN f.code ELSE NoPosition]
           halt == SessionOver(ch, f.timess, market)
       IN  /\ chart' = ch
           /\ stack' = SubSeq(stack, 1, Len(stack) - 1)
           /\ last' = [NoOp EXCEPT !.name = "return", !.code = f.code,
                           !.timess = f.timess, !.halted = halt,
                           !.outcome = outcome]
           /\ IF halt THEN stop ELSE UNCHANGED <<subscribed, stops>>
    /\ UNCHANGED <<market, orders, nticks>>

\* stockexpcur: mtype == ord("3"); futureexp: mtype == 30 and timess > 153500
ClosingAuction(m, mtype, timess) ==
    IF m = "stock" THEN mtype = 51 ELSE mtype = 30 /\ timess > 153500

\* OnReceived, name "stockexpcur" / "futureexp": in the closing auction it
\* reads the local variable position, which this branch never assigns
ExpTick(code, timess, cprice, mtype) ==
    /\ subscribed
    /\ last' = [NoOp EXCEPT !.name = "exp", !.code = code, !.timess = timess,
                    !.cprice = cprice, !.mtype = mtype,
                    !.raised = IF ClosingAuction(market, mtype, timess)
                               THEN "UnboundLocalError" ELSE ""]
    /\ UNCHANGED <<market, chart, stack, orders, subscribed, stops, nticks>>

MutConclusionWritesFlat ==
    /\ chart' = [chart EXCEPT ![Len(chart)].position = NoPosition]
    /\ last' = [NoOp EXCEPT !.name = "conclusion"]
    /\ UNCHANGED <<market, stack, orders, subscribed, stops, nticks>>

\* OnReceived, name "conclusion" / "Fconclusion": prints the execution
ConclusionTick ==
    /\ last' = [NoOp EXCEPT !.name = "conclusion"]
    /\ UNCHANGED <<market, chart, stack, orders, subscribed, stops, nticks>>

Next ==
    \/ \E code \in Codes, timess \in TickTimes(market), cprice \in TickPrices :
          CurTick(code, timess, cprice)
    \/ SendOrder
    \/ \E outcome \in RequestOutcomes : TradeReturns(outcome)
    \/ \E code \in Codes, timess \in ExpTimes, cprice \in ExpPrices,
          mtype \in MarketTypes :
          ExpTick(code, timess, cprice, mtype)
    \/ ConclusionTick

Spec == Init /\ [][Next]_vars

----------------------------------------------------------------------------
(* SpecClose: the dispatcher in the last minute of the session.  Ticks of  *)
(* the minute before the session end fall into the bucket of the session   *)
(* end (chart_builder.py:61-68), so the bar of that bucket exists and is   *)
(* populated for every instrument before the first tick whose time reaches *)
(* the session end.                                                        *)

\* the bars up to the bucket of the session end; the last bar is forming, its
\* close (2) is below its high (3)
ClosingRow(i, pos, m) ==
    [BootstrapRow(i, pos) EXCEPT
        !.time = HHMM((end_time(m) \div 100) * 60 + (end_time(m) % 100)
                      - (BootstrapBars - i)),
        !.ohlc = IF i = BootstrapBars THEN [c \in Codes |-> Bar(2, 3, 2, 2)] ELSE @]

ClosingChart(pos, m) == [i \in 1..BootstrapBars |-> ClosingRow(i, pos, m)]

InitClose ==
    /\ market \in {"stock", "future"}
    /\ chart \in {ClosingChart(pos, market) : pos \in {NoPosition, "c1"}}
    /\ stack = <<>>
    /\ orders = <<>>
    /\ subscribed = TRUE
    /\ stops = 0
    /\ nticks = 0
    /\ last = NoOp

SpecClose == InitClose /\ [][Next]_vars

----------------------------------------------------------------------------
(* SpecShort: the dispatcher on a chart too short to evaluate a signal.    *)
(* _fetch_chart builds as many rows as the gateway returns                 *)
(* (GetHeaderValue(3), chart_builder.py:141-144); here it returned one bar *)
(* per instrument.  The futures builder holds no chart at all              *)
(* (chart_builder.py:199-204).                                             *)

ShortChart(pos) == <<BootstrapRow(BootstrapBars, pos)>>

InitShort ==
    /\ market \in {"stock", "future"}
    /\ chart \in IF market = "stock"
                 THEN {ShortChart(pos) : pos \in {NoPosition, "c1"}}
                 ELSE {<<>>}
    /\ stack = <<>>
    /\ orders = <<>>
    /\ subscribed = TRUE
    /\ stops = 0
    /\ nticks = 0
    /\ last = NoOp

SpecShort == InitShort /\ [][Next]_vars

----------------------------------------------------------------------------
(* SpecBoot: construction of the listener's chart builder with a gateway,  *)
(* followed by the first ticks.  Before the construction nothing is        *)
(* subscribed.  A chart attribute that holds no frame (None) is modelled   *)
(* as the chart without rows: the first tick raises on both.               *)

\* what the account holds: nothing, an instrument of the universe, or an
\* instrument outside the universe
Holdings == {"none", "c1", "c2", "other"}

\* StockChartBuilder._current_position / FutureChartBuilder._current_position
current_position(held) == IF held \in Codes THEN held ELSE NoPosition

\* the bars as the gateway returns them: index 0 is the most recent bar
GatewayBars == [i \in 1..BootstrapBars |-> BootstrapRow(BootstrapBars + 1 - i, NoPosition)]

\* range(n)[::-1]
Reverse(s) == [i \in 1..Len(s) |-> s[Len(s) + 1 - i]]

\* StockChartBuilder._fetch_chart (FutureChartBuilder._fetch_chart is the same)
fetch_chart(held) ==
    [i \in 1..Len(GatewayBars) |->
        [Reverse(GatewayBars)[i] EXCEPT !.position = current_position(held)]]

InitBoot ==
    /\ market \in {"stock", "future"}
    /\ chart = <<>>
    /\ stack = <<>>
    /\ orders = <<>>
    /\ subscribed = FALSE
    /\ stops = 0
    /\ nticks = 0
    /\ last = NoOp

\* DataListener.__init__: StockChartBuilder.__init__ assigns
\* self.chart = self._fetch_chart(); FutureChartBuilder.__init__ only adjusts
\* the session times, self.chart stays None
Construct(held) ==
    /\ ~subscribed
    /\ last.name = "init"
    /\ chart' = IF market = "stock" THEN fetch_chart(held) ELSE chart
    /\ subscribed' = TRUE
    /\ last' = [NoOp EXCEPT !.name = "construct", !.held = held]
    /\ UNCHANGED <<market, stack, orders, stops, nticks>>

NextBoot ==
    \/ \E held \in Holdings : Construct(held)
    \/ \E code \in Codes, timess \in TickTimes(market), cprice \in TickPrices :
          CurTick(code, timess, cprice)
    \/ SendOrder
    \/ \E outcome \in RequestOutcomes : TradeReturns(outcome)

SpecBoot == InitBoot /\ [][NextBoot]_vars

----------------------------------------------------------------------------
(* SpecStream: DataStream.__init__ of trader_stock / trader_future for a   *)
(* universe, a dict whose keys are iterated in insertion order.            *)

UniverseCodes == {"c1", "c2", "c3", "c4"}

\* the non-empty universes: sequences of distinct codes
Universes ==
    {u \in UNION {[1..n -> UniverseCodes] : n \in 1..Cardinality(UniverseCodes)} :
        \A i, j \in DOMAIN u : i # j => u[i] # u[j]}

\* the key under which the loop stores the manager of a code:
\* self.objcur["A" + code] (stock), self.objcur[code] (futures)
StoredKey(m, code) == IF m = "stock" THEN "A" \o code ELSE code

\* the key the next statement looks up: self.objcur[code].set_inputs(...)
LookupKey(m, code) == code

\* DataSteamManager.subscribe: win32com.client.WithEvents(self.obj, listener)
\* instantiates the listener class and calls listener.__init__(instance)
\* with no further argument; DataListener.__init__(self, trade_universe)
\* requires one, so the call raises TypeError before set_params and
\* obj.subscribe() are reached.
SubscribeError == "TypeError"

\* DataStream.__init__: the first iteration of the first loop.  A universe
\* is not empty, and the first iteration always raises.
StartStream(universe) ==
    /\ ~subscribed
    /\ last.name = "init"
    /\ last' = [NoOp EXCEPT !.name = "stream", !.universe = universe,
                    !.registered = {},
                    !.raised = IF LookupKey(market, universe[1])
                                    # StoredKey(market, universe[1])
                               THEN "KeyError" ELSE SubscribeError]
    /\ UNCHANGED <<market, chart, stack, orders, subscribed, stops, nticks>>

NextStream == \E universe \in Universes : StartStream(universe)

SpecStream == InitBoot /\ [][NextStream]_vars

----------------------------------------------------------------------------
(* SpecRequest: one call of BrokerageApiRequestHandler.request             *)
(* (brokerage_api_actions.py:93-127).  The stack holds the waiting         *)
(* request: its object name, whether its stop event is signalled, and      *)
(* whether the gateway's answer is still to come.  Each step is one        *)
(* iteration of the while loop: MsgWaitForMultipleObjects returns 0 when   *)
(* the event is signalled, 1 when a message is waiting, 258 when neither   *)
(* happened within 1000 ms, and the loop acts on the result.  Which        *)
(* messages are waiting is up to the gateway: ticks of the subscribed      *)
(* instruments, the answer of the request, or a quit message.              *)

MaxWakeups == 3

RequestNames(m) ==
    IF m = "stock" THEN {"order", "chart", "buyamt", "acc_info"}
    ELSE {"order", "f_chart", "f_bsamt", "f_acc_info"}

WaitObject0 == 0

WaitMessage == 1

WaitTimeout == 258

WaitAbandoned == 128

Waiting == stack # <<>>

Finish(rc, raised) ==
    /\ stack' = <<>>
    /\ last' = [NoOp EXCEPT !.name = "request_end", !.code = stack[1].name,
                    !.rc = rc, !.raised = raised]
    /\ UNCHANGED <<market, chart, orders, subscribed, stops, nticks>>

\* lines 105-110: create the event, attach the handler, obj.Request()
StartRequest(obj_name) ==
    /\ stack = <<>>
    /\ last.name = "init"
    /\ stack' = <<[name |-> obj_name, event |-> FALSE, response |-> "pending"]>>
    /\ last' = [NoOp EXCEPT !.name = "request", !.code = obj_name]
    /\ UNCHANGED <<market, chart, orders, subscribed, stops, nticks>>

\* lines 115-117: the stop event is signalled, break
StopEvent ==
    /\ Waiting
    /\ stack[1].event
    /\ Finish(WaitObject0, "")

\* lines 118-121, the message pumped is a tick of a subscribed instrument:
\* the loop goes on with a new wait of 1000 ms
PumpTick(code) ==
    /\ Waiting
    /\ ~stack[1].event
    /\ nticks' = IF nticks < MaxWakeups THEN nticks + 1 ELSE nticks
    /\ last' = [NoOp EXCEPT !.name = "pump", !.code = stack[1].name,
                    !.rc = WaitMessage, !.message = code]
    /\ UNCHANGED <<market, chart, stack, orders, subscribed, stops>>

\* lines 118-121, the message pumped is the answer of the request:
\* BrokerageApiRequestHandler.OnReceived (lines 84-91) sets the stop event
PumpResponse ==
    /\ Waiting
    /\ ~stack[1].event
    /\ stack[1].response = "pending"
    /\ stack' = <<[stack[1] EXCEPT !.event = TRUE, !.response = "delivered"]>>
    /\ last' = [NoOp EXCEPT !.name = "pump", !.code = stack[1].name,
                    !.rc = WaitMessage, !.message = "response"]
    /\ UNCHANGED <<market, chart, orders, subscribed, stops, nticks>>

\* lines 120-121: PumpWaitingMessages returns true (quit message), break
PumpQuit ==
    /\ Waiting
    /\ ~stack[1].event
    /\ Finish(WaitMessage, "")

\* lines 122-124: nothing within 1000 ms, return
WaitTimesOut ==
    /\ Waiting
    /\ ~stack[1].event
    /\ Finish(WaitTimeout, "")

\* lines 125-127: any other result, raise RuntimeError
WaitFails ==
    /\ Waiting
    /\ Finish(WaitAbandoned, "RuntimeError")

LoopRequest ==
    \/ StopEvent
    \/ \E code \in Codes : PumpTick(code)
    \/ PumpResponse
    \/ PumpQuit
    \/ WaitTimesOut
    \/ WaitFails

NextRequest ==
    \/ \E obj_name \in RequestNames(market) : StartRequest(obj_name)
    \/ LoopRequest

SpecRequest == InitBoot /\ [][NextRequest]_vars

\* the loop does not stop by itself: each wait returns within its 1000 ms.
\* Nothing obliges the gateway to answer or to stop sending ticks.
SpecRequestFair == SpecRequest /\ WF_vars(LoopRequest)

----------------------------------------------------------------------------
(* SpecSignal: buy_signal and sell_signal as functions of a chart, a code, *)
(* a price and a time, as test_trading_strategy.py calls them.             *)

SignalLens == {1, 2, 77, 121, 122, 363}

MarkOffsets == {0, 1, 75, 76, 120, 121, 360, 361}

MarkKinds == {"none", "dip", "lowdip", "highdip", "spike", "unset"}

OldDipOffset == 200

SignalTimes == {103000, 103100, 151900, 152000, 152030, 152100, 153600}

SignalPrices == {48, 50, 51, 61}

\* the cell of a marked row
MarkCell(kind) ==
    IF kind = "dip" THEN Bar(40, 40, 39, 40)
    ELSE IF kind = "lowdip" THEN Bar(50, 50, 39, 50)
    ELSE IF kind = "highdip" THEN Bar(49, 49, 49, 49)
    ELSE IF kind = "spike" THEN Bar(50, 60, 49, 50)
    ELSE IF kind = "unset" THEN AllNaN
    ELSE Bar(50, 50, 49, 50)

\* A chart of n rows for instrument c1 and its group: flat bars, one marked
\* row d rows before the last one, and optionally a dip OldDipOffset rows
\* before the last one.  The other instrument traded in every minute.
SignalChart(n, d, kind, old) ==
    [i \in 1..n |->
        [date     |-> Today,
         time     |-> i,
         position |-> NoPosition,
         ohlc     |-> [c \in Codes |->
                         IF c = "c1" /\ n - i = d THEN MarkCell(kind)
                         ELSE IF c = "c1" /\ old /\ n - i = OldDipOffset
                              THEN MarkCell("dip")
                         ELSE MarkCell("none")]]]

SignalCharts ==
    {SignalChart(n, d, kind, old) :
        n \in SignalLens, d \in MarkOffsets, kind \in MarkKinds, old \in BOOLEAN}

\* the instruments that have columns in the frame
Columns(ch) == IF Len(ch) = 0 THEN {} ELSE DOMAIN ch[1].ohlc

MutSignalErrorKind(ch, code) ==
    IF code \notin Columns(ch) THEN "ValueError"
    ELSE IF SignalRaises(ch, code) THEN "ValueError"
    ELSE ""

\* The exception of buy_signal / sell_signal.  The list of conditions is
\* built before all() / any() looks at it: chart[f"low_{code}"] raises
\* KeyError whatever the time conditions are, and min() of an empty slice
\* raises ValueError.
SignalError(ch, code) ==
    IF code \notin Columns(ch) THEN "KeyError"
    ELSE IF SignalRaises(ch, code) THEN "ValueError"
    ELSE ""

InitSignal ==
    /\ market \in {"stock", "future"}
    /\ chart \in SignalCharts
    /\ stack = <<>>
    /\ orders = <<>>
    /\ subscribed = TRUE
    /\ stops = 0
    /\ nticks = 0
    /\ last = NoOp

\* one call strategy.buy_signal(chart, code, cur_price, cur_time)
EvalBuy(code, cur_price, cur_time) ==
    /\ nticks = 0
    /\ nticks' = 1
    /\ last' = [NoOp EXCEPT !.name = "buy_signal", !.code = code,
                    !.timess = cur_time, !.cprice = cur_price,
                    !.rows = Len(chart), !.signal = "buy",
                    !.raised = SignalError(chart, code),
                    !.fired = IF SignalError(chart, code) # "" THEN FALSE
                              ELSE buy_signal(chart, code, cur_price, cur_time, market)]
    /\ UNCHANGED <<market, chart, stack, orders, subscribed, stops>>

\* one call strategy.sell_signal(chart, code, cur_price, cur_time)
EvalSell(code, cur_price, cur_time) ==
    /\ nticks = 0
    /\ nticks' = 1
    /\ last' = [NoOp EXCEPT !.name = "sell_signal", !.code = code,
                    !.timess = cur_time, !.cprice = cur_price,
                    !.rows = Len(chart), !.signal = "sell",
                    !.raised = SignalError(chart, code),
                    !.fired = IF SignalError(chart, code) # "" THEN FALSE
                              ELSE sell_signal(chart, code, cur_price, cur_time, market)]
    /\ UNCHANGED <<market, chart, stack, orders, subscribed, stops>>

NextSignal ==
    \/ \E code \in Codes, cur_price \in SignalPrices, cur_time \in SignalTimes :
          EvalBuy(code, cur_price, cur_time)
    \/ \E code \in Codes, cur_price \in SignalPrices, cur_time \in SignalTimes :
          EvalSell(code, cur_price, cur_time)

SpecSignal == InitSignal /\ [][NextSignal]_vars

(* SpecMissing: the same calls on frames that lack the columns of the      *)
(* code, as test_buy_raise_key_error makes them.                           *)

MissingLens == {0, 1, 2, 5, 122}

\* a frame of n rows with price columns for the instruments cols only
MissingChart(n, cols) ==
    [i \in 1..n |->
        [date     |-> Today,
         time     |-> i,
         position |-> NoPosition,
         ohlc     |-> [c \in cols |-> MarkCell("none")]]]

InitMissing ==
    /\ market \in {"stock", "future"}
    /\ chart \in {MissingChart(n, cols) : n \in MissingLens, cols \in {{}, {"c2"}}}
    /\ stack = <<>>
    /\ orders = <<>>
    /\ subscribed = TRUE
    /\ stops = 0
    /\ nticks = 0
    /\ last = NoOp

SpecMissing == InitMissing /\ [][NextSignal]_vars

----------------------------------------------------------------------------
(* SpecBucket: lines 61-68 of realtime_chart_builder for tick times of the *)
(* whole day and several session ends.                                     *)

BucketHours == {0, 9, 12, 14, 15, 23}

BucketMinutes == {0, 1, 29, 30, 44, 45, 58, 59}

BucketSeconds == {0, 59}

\* end_time of the chart builder: GetMarketEndTime(), plus 15 for futures
BucketEnds == {1459, 1500, StockEnd, StockEnd + FutureOffset, 2359}

InitBucket ==
    /\ market \in {"stock", "future"}
    /\ chart = <<>>
    /\ stack = <<>>
    /\ orders = <<>>
    /\ subscribed = TRUE
    /\ stops = 0
    /\ nticks = 0
    /\ last = NoOp

\* hhmm as lines 61-68 compute it for a tick of the given time
ResolveBucket(time, endt) ==
    /\ nticks = 0
    /\ nticks' = 1
    /\ last' = [NoOp EXCEPT !.name = "bucket", !.timess = time, !.endt = endt,
                    !.hhmm = Bucket(time, endt)]
    /\ UNCHANGED <<market, chart, stack, orders, subscribed, stops>>

NextBucket ==
    \E h \in BucketHours, mi \in BucketMinutes, sec \in BucketSeconds,
       endt \in BucketEnds :
        ResolveBucket(h * 10000 + mi * 100 + sec, endt)

SpecBucket == InitBucket /\ [][NextBucket]_vars

----------------------------------------------------------------------------
(* Properties of the chart builder (checked under SpecChart).              *)

CellOrdered(cell) ==
    /\ cell.open # NaN /\ cell.high # NaN /\ cell.low # NaN /\ cell.close # NaN
    /\ cell.low <= cell.open /\ cell.open <= cell.high
    /\ cell.low <= cell.close /\ cell.close <= cell.high

Max2(a, b) == IF a >= b THEN a ELSE b

Min2(a, b) == IF a <= b THEN a ELSE b

\* the step is a call of realtime_chart_builder on a chart with rows
UpdateStep == last'.name = "update" /\ nticks' = nticks + 1 /\ Len(chart) > 0

\* the rows of the chart, before the step, of the tick's date and bucket
TickRows == RowNow(chart, Today, Bucket(last'.timess, end_time(market)))

\* C2: after any sequence of updates of a chart whose populated cells are
\* ordered, every populated cell group of every row has low <= open <= high
\* and low <= close <= high.
C2_BucketInvariant ==
    \A i \in 1..Len(chart) : \A c \in Codes :
        chart[i].ohlc[c] # AllNaN => CellOrdered(chart[i].ohlc[c])

\* an update has raised the high and lowered the low of a populated cell
C2_Witness ==
    /\ last.name = "update" /\ last.branch = "update"
    /\ LET cell == chart[Len(chart)].ohlc[last.code]
       IN  cell.low < cell.open /\ cell.open < cell.high

\* C3: over any sequence of updates, in any time order, the number of rows
\* never decreases and the (date, time) key of an existing row never changes.
C3_AppendOnly ==
    [][ /\ Len(chart') >= Len(chart)
        /\ \A i \in 1..Len(chart) :
              chart'[i].date = chart[i].date /\ chart'[i].time = chart[i].time
      ]_vars

\* two updates, the second of an earlier minute than the first
C3_Witness ==
    /\ last.name = "update" /\ Len(chart) = 4
    /\ chart[4].date = chart[3].date /\ chart[4].time < chart[3].time

\* C6: when the chart has rows but none of the tick's (date, bucket), the
\* update appends one row with that key, with open = high = low = close =
\* price for the tick's instrument, unset cells for the other instruments,
\* and the position of the previous last row.
C6_AppendNewBucket ==
    [][ (UpdateStep /\ TickRows = {}) =>
        LET n == Len(chart)
            r == chart'[n + 1]
        IN  /\ Len(chart') = n + 1
            /\ r.date = Today
            /\ r.time = Bucket(last'.timess, end_time(market))
            /\ r.ohlc[last'.code] = AllPrice(last'.cprice)
            /\ \A c \in Codes \ {last'.code} : r.ohlc[c] = AllNaN
            /\ r.position = chart[n].position
      ]_vars

\* a row was appended to a chart whose last row held a position
C6_Witness ==
    /\ last.name = "update" /\ last.branch = "append" /\ last.rows >= 1
    /\ Len(chart) = last.rows + 1
    /\ chart[Len(chart)].position = "c1"

\* C7: when a row of the tick's (date, bucket) exists and the instrument's
\* cells in it are populated, the update keeps the number of rows, sets close
\* to the price, high to max(high, price), low to min(low, price) and leaves
\* open unchanged.
C7_UpdateExistingBucket ==
    [][ UpdateStep =>
        \A i \in TickRows :
            LET before == chart[i].ohlc[last'.code]
                price  == last'.cprice
            IN  before # AllNaN =>
                /\ Len(chart') = Len(chart)
                /\ chart'[i].ohlc[last'.code] =
                       [open  |-> before.open,
                        high  |-> Max2(before.high, price),
                        low   |-> Min2(before.low, price),
                        close |-> price]
      ]_vars

\* C8: an update of a chart without rows succeeds and leaves exactly one
\* row, of the tick's bucket, with open = high = low = close = price for the
\* instrument and no position.
C8_EmptySeries ==
    (last.name = "update" /\ last.rows = 0) =>
        /\ last.raised = ""
        /\ Len(chart) = 1
        /\ chart[1].time = Bucket(last.timess, end_time(market))
        /\ chart[1].ohlc[last.code] = AllPrice(last.cprice)
        /\ chart[1].position = NoPosition

----------------------------------------------------------------------------
(* Properties of the dispatcher (checked under Spec).                      *)

\* C1: the position of the listener is a single value, FLAT or HOLDING one
\* instrument, and no entry (buy) order is ever issued while the position is
\* HOLDING, whatever ticks are processed.
C1_NoBuyWhileHolding ==
    /\ Position(chart) \in Positions
    /\ \A i \in 1..Len(orders) :
          orders[i].call.side = "entry" => orders[i].position = NoPosition

\* C4: the halt of the data streams is requested at most once, and only by
\* the handler of a current-price tick whose time is at or after the end of
\* the session while the last row is populated for every instrument.
C4_HaltAtMostOnce ==
    [][stops' # stops =>
          /\ stops = 0
          /\ stops' = 1
          /\ last'.name \in {"cur", "return"}
          /\ last'.timess >= end_time(market) * 100
          /\ RowComplete(chart'[Len(chart')])]_vars

----------------------------------------------------------------------------
(* Properties of the signals (checked under SpecSignal).                   *)

\* the populated values of a column in the last k completed bars: the rows
\* before the most recent one, at most k of them
CompletedBars(ch, k) == {i \in 1..(Len(ch) - 1) : i >= Len(ch) - k}

Populated(ch, code, field, k) ==
    {ch[i].ohlc[code][field] : i \in CompletedBars(ch, k)} \ {NaN}

Minimum(S) == CHOOSE v \in S : \A w \in S : v <= w

Maximum(S) == CHOOSE v \in S : \A w \in S : v >= w

\* minimum of the last k completed bars above that of the last m
MinimumAbove(ch, code, field, k, m) ==
    /\ Populated(ch, code, field, k) # {}
    /\ Populated(ch, code, field, m) # {}
    /\ Minimum(Populated(ch, code, field, k)) > Minimum(Populated(ch, code, field, m))

\* C9: on a chart with at least one completed bar, buy_signal returns true
\* exactly when the five conditions hold together: the market-open filter,
\* the market-close filter, the minimum low of the last 120 completed bars
\* above that of the last 360, the minimum high of the last 75 completed bars
\* above that of the last 360, and the price above the maximum high of the
\* last 120 completed bars; it returns false otherwise.
C9_BuyIffAllFive ==
    (last.name = "buy_signal" /\ Len(chart) >= 2) =>
        /\ last.raised = ""
        /\ last.fired <=>
             /\ last.timess \div 100 > start_time(market) + 130
             /\ last.timess \div 100 < end_time(market) - 10
             /\ MinimumAbove(chart, last.code, "low", 120, 360)
             /\ MinimumAbove(chart, last.code, "high", 75, 360)
             /\ Populated(chart, last.code, "high", 120) # {}
             /\ last.cprice > Maximum(Populated(chart, last.code, "high", 120))

\* C10: on a chart with at least one completed bar, sell_signal returns true
\* exactly when at least one of three conditions holds: the close filter,
\* the price below the minimum low of the last 120 completed bars, or the
\* price below 0.96 times the maximum high of the last 120 completed bars;
\* it returns false when none holds.
C10_SellIffAnyOfThree ==
    (last.name = "sell_signal" /\ Len(chart) >= 2) =>
        /\ last.raised = ""
        /\ last.fired <=>
             \/ last.timess \div 100 > end_time(market) - 10
             \/ /\ Populated(chart, last.code, "low", 120) # {}
                /\ last.cprice < Minimum(Populated(chart, last.code, "low", 120))
             \/ /\ Populated(chart, last.code, "high", 120) # {}
                /\ 100 * last.cprice
                      < 96 * Maximum(Populated(chart, last.code, "high", 120))

----------------------------------------------------------------------------
(* Properties of the signals on frames without the columns of the code     *)
(* (checked under SpecMissing).                                            *)

\* C11: a call of buy_signal or sell_signal for a code whose columns are
\* absent from the frame fails with the missing-column error (KeyError) for
\* every price and time, also when a time condition alone would decide the
\* result; it never returns a boolean.
C11_MissingColumnRaises ==
    (last.name \in {"buy_signal", "sell_signal"} /\ last.code \notin Columns(chart))
        => (last.raised = "KeyError" /\ ~last.fired)

\* sell_signal in the last ten minutes, where the close filter alone makes
\* any() true, on a frame of several rows without the columns of the code
C11_Witness ==
    /\ last.name = "sell_signal"
    /\ last.code \notin Columns(chart)
    /\ Len(chart) >= 2
    /\ last.timess \div 100 > end_time(market) - 10
    /\ last.raised = "KeyError"

----------------------------------------------------------------------------
(* Properties of the bucket of a tick (checked under SpecBucket).          *)

MinuteOfDay(hhmm) == (hhmm \div 100) * 60 + (hhmm % 100)

ValidHHMM(hhmm) == hhmm \div 100 \in 0..23 /\ hhmm % 100 \in 0..59

\* C12: for a tick at HH:MM:SS and a session-end bucket E, the bucket is the
\* HHMM of the minute after HH:MM (minute 59 rolls to the next hour), except
\* that a tick whose minute is at or after E gets E; the bucket is a valid
\* HHMM value and never exceeds E.
C12_BucketResolution ==
    last.name = "bucket" =>
        LET tick == last.timess \div 100
        IN  /\ IF MinuteOfDay(tick) >= MinuteOfDay(last.endt)
               THEN last.hhmm = last.endt
               ELSE MinuteOfDay(last.hhmm) = MinuteOfDay(tick) + 1
            /\ ValidHHMM(last.hhmm)
            /\ last.hhmm <= last.endt

\* a tick in minute 59 before the session end: the next hour's :00
C12_Witness ==
    /\ last.name = "bucket"
    /\ (last.timess \div 100) % 100 = 59
    /\ last.hhmm % 100 = 0
    /\ last.hhmm < last.endt

----------------------------------------------------------------------------
(* Properties of the transitions (checked under Spec).                     *)

\* the handler that returns in this step
Returning == stack[Len(stack)]

\* the orders of one side for one code issued after the first n orders
OrdersSince(os, n, side, code) ==
    {i \in (n + 1)..Len(os) : os[i].call.side = side /\ os[i].call.code = code}

\* C13: a current-price tick for code c evaluated while the position is FLAT
\* and buy_signal is true issues exactly one market entry order for c and
\* writes HOLDING(c) into the last row; from its evaluation to the end of
\* its handling the number of rows does not change.
C13_EntryTransition ==
    [][(stack # <<>> /\ Len(stack') = Len(stack) - 1 /\ Returning.side = "entry") =>
          /\ Position(chart') = Returning.code
          /\ Len(chart') = Returning.rows
          /\ Cardinality(OrdersSince(orders', Returning.norders,
                                     "entry", Returning.code)) = 1]_vars

\* C14: a current-price tick for code c evaluated while the position is
\* HOLDING(c) and sell_signal is true issues exactly one market exit order
\* for c and writes FLAT into the last row; from its evaluation to the end of
\* its handling the number of rows does not change.
C14_ExitTransition ==
    [][(stack # <<>> /\ Len(stack') = Len(stack) - 1 /\ Returning.side = "exit") =>
          /\ Position(chart') = NoPosition
          /\ Len(chart') = Returning.rows
          /\ Cardinality(OrdersSince(orders', Returning.norders,
                                     "exit", Returning.code)) = 1]_vars

\* the signal the spec consults for a tick of code c at position pos is false
\* or there is none: FLAT and no buy signal, HOLDING(c) and no sell signal,
\* or HOLDING another instrument
NoTransitionDue(ch, pos, c, cprice, timess, m) ==
    \/ pos = NoPosition /\ ~buy_signal(ch, c, cprice, timess, m)
    \/ pos = c /\ ~sell_signal(ch, c, cprice, timess, m)
    \/ pos \notin {NoPosition, c}

\* C15: a current-price tick on which the consulted signal is false, or
\* which is for an instrument other than the one held, issues no order and
\* leaves the position unchanged.
C15_NoTransition ==
    [][(nticks' = nticks + 1 /\ last'.name = "cur" /\ last'.raised = ""
          /\ NoTransitionDue(chart', Position(chart), last'.code,
                             last'.cprice, last'.timess, market))
        => /\ orders' = orders
           /\ stack' = stack
           /\ Position(chart') = Position(chart)]_vars

\* a tick for c2 on which sell_signal is true arrived while c1 was held, and
\* nothing was ordered
C15_Witness ==
    /\ last.name = "cur"
    /\ last.changed
    /\ Position(chart) \notin {NoPosition, last.code}
    /\ sell_signal(chart, last.code, last.cprice, last.timess, market)
    /\ orders = <<>>
    /\ stack = <<>>

\* C16: an expected-execution tick for the held instrument c inside the
\* closing auction, with sell_signal true for the indicative price, issues
\* an exit order for c in that tick and makes the position FLAT.
C16_ExitOnExpectedTick ==
    [][(last'.name = "exp"
          /\ ClosingAuction(market, last'.mtype, last'.timess)
          /\ Position(chart) = last'.code
          /\ sell_signal(chart, last'.code, last'.cprice, last'.timess, market))
        => /\ Len(orders') = Len(orders) + 1
           /\ orders'[Len(orders')].call = TradeCall(market, "exit", last'.code)
           /\ Position(chart') = NoPosition]_vars

\* C17: processing an execution-confirmation tick leaves every row and cell
\* of the chart and the position unchanged, evaluates no signal and issues
\* no order.
C17_ConfirmationIsInert ==
    [][last'.name = "conclusion" =>
          /\ chart' = chart
          /\ orders' = orders
          /\ stack' = stack
          /\ last'.signal = "none"
          /\ ~last'.fired]_vars

\* the confirmation of an order arrived while the handler that sent the order
\* was still waiting and an instrument was held
C17_Witness ==
    /\ last.name = "conclusion"
    /\ orders # <<>>
    /\ stack # <<>>
    /\ stack[Len(stack)].pc = "order"
    /\ Position(chart) # NoPosition

\* C18: the handling of ticks is never re-entered: a current-price tick
\* starts being processed only when no other handler is waiting inside a
\* request of the gateway.
C18_NoReentry ==
    [][nticks' = nticks + 1 => stack = <<>>]_vars

----------------------------------------------------------------------------
(* Out-of-order ticks (checked under SpecChart).                           *)

\* C19: a current-price tick whose bucket is earlier than the bucket of the
\* last row is ignored: it appends no row and changes no cell of any row.
C19_OutOfOrderIgnored ==
    [][(UpdateStep
          /\ chart[Len(chart)].date = Today
          /\ Bucket(last'.timess, end_time(market)) < chart[Len(chart)].time)
        => chart' = chart]_vars

----------------------------------------------------------------------------
(* Construction (checked under SpecBoot).                                  *)

\* C20: after construction with a gateway the chart builder of either market
\* holds the bootstrap bars, oldest first, with the position HOLDING(code) if
\* the account holds an instrument of the universe and FLAT otherwise, and
\* the first tick is processed against it.
C20_SeededAtConstruction ==
    /\ last.name = "construct" =>
          /\ Len(chart) = BootstrapBars
          /\ \A i \in 1..(Len(chart) - 1) : chart[i].time < chart[i + 1].time
          /\ \A i \in 1..Len(chart) :
                chart[i].position = IF last.held \in Codes THEN last.held
                                    ELSE NoPosition
    /\ last.name = "cur" => last.raised = ""

----------------------------------------------------------------------------
(* Start of the dispatcher (checked under SpecStream).                     *)

\* the handlers the dispatcher of a universe has to register
HandlersOf(universe) ==
    {<<kind, universe[i]>> : kind \in {"cur", "exp"}, i \in DOMAIN universe}
        \cup {<<"conclusion", "">>}

\* C21: constructing DataStream for a non-empty universe completes without
\* error and leaves registered one current-price and one expected-execution
\* handler per instrument and one execution-confirmation handler, for the
\* stock and for the futures dispatcher.
C21_StreamStarts ==
    last.name = "stream" =>
        /\ last.raised = ""
        /\ last.registered = HandlersOf(last.universe)


----------------------------------------------------------------------------
(* End of the session (checked under SpecClose)                            *)

\* C22: whenever a current-price tick whose time is at or after the session
\* end is processed while every instrument's cells of the current row are
\* populated, the handler requests halt before it returns, whatever the
\* position and whether or not the tick changed a price cell.
C22_HaltAtSessionEnd ==
    [][(/\ last'.name \in {"cur", "return"}
        /\ Len(stack') <= Len(stack)
        /\ last'.raised = ""
        /\ last'.timess >= end_time(market) * 100
        /\ RowComplete(chart'[Len(chart')]))
       => (stops' = stops + 1 /\ ~subscribed')]_vars

----------------------------------------------------------------------------
(* After the halt (checked under Spec)                                     *)

\* C23: once DataStream.stop has run, no current-price or expected-execution
\* tick is processed any more: the chart (prices and position) never changes
\* again and no further order is issued.
C23_NothingAfterHalt ==
    [][stops >= 1 =>
          (/\ chart' = chart
           /\ orders' = orders
           /\ last'.name \notin {"cur", "exp"})]_vars

----------------------------------------------------------------------------
(* Failed order requests (checked under Spec)                              *)

\* the position that the transition of the returning handler records
PostTransition(frame) == IF frame.side = "entry" THEN frame.code ELSE NoPosition

\* C24: when the order request of a buy or sell transition times out or is
\* rejected, the transition is not rolled back: when the handler returns, the
\* position of the current row is the state after the transition.
C24_FailedOrderKeepsTransition ==
    [][(last'.name = "return" /\ last'.outcome \in {"timeout", "rejected"})
       => Position(chart') = PostTransition(stack[Len(stack)])]_vars

C24_Witness ==
    /\ last.name = "return"
    /\ last.outcome = "timeout"
    /\ orders # <<>>
    /\ orders[Len(orders)].call.side = "entry"
    /\ Position(chart) = last.code

----------------------------------------------------------------------------
(* Failing ticks (checked under SpecShort)                                 *)

----------------------------------------------------------------------------
(* Time filters of the signals (checked under SpecSignal)                  *)

\* the session of the futures starts FutureOffset minutes of clock time
\* before the one of the stocks and ends FutureOffset minutes after it
SessionStartMinute(m) ==
    MinuteOfDay(StockStart) - (IF m = "future" THEN FutureOffset ELSE 0)

SessionEndMinute(m) ==
    MinuteOfDay(StockEnd) + (IF m = "future" THEN FutureOffset ELSE 0)

SecondOfDay(timess) == MinuteOfDay(timess \div 100) * 60 + (timess % 100)

\* C26: buy_signal is false for every tick whose time is within 130 minutes
\* after the session start (start 09:00: every tick up to 11:10).
C26_NoEntryInOpeningWindow ==
    (/\ last.name = "buy_signal"
     /\ MinuteOfDay(last.timess \div 100) <= SessionStartMinute(market) + 130)
    => ~last.fired

\* C27: for every tick whose clock time lies within the final 10 minutes
\* before the session end, sell_signal is true, whatever the price and the
\* history.
C27_ExitInClosingWindow ==
    (/\ last.name = "sell_signal"
     /\ last.raised = ""
     /\ SecondOfDay(last.timess) >= (SessionEndMinute(market) - 10) * 60
     /\ SecondOfDay(last.timess) <= SessionEndMinute(market) * 60)
    => last.fired

\* C29: on every chart with the columns of the code and fewer than 361 rows,
\* one or two rows included, buy_signal and sell_signal truncate their
\* windows to the bars there are and return a boolean without raising.
C29_ShortSeriesEvaluates ==
    (last.name \in {"buy_signal", "sell_signal"} /\ last.rows < 361)
    => last.raised = ""

----------------------------------------------------------------------------
(* Session window of the futures (checked under SpecBoot)                  *)

\* C28: the session window of the futures builder and strategy is the one of
\* the stocks extended by 15 minutes of clock time on each side, and both
\* its start and its end are valid HHMM values.
C28_FuturesWindow ==
    (last.name = "construct" /\ market = "future")
    => (/\ ValidHHMM(start_time(market))
        /\ ValidHHMM(end_time(market))
        /\ MinuteOfDay(start_time(market)) = MinuteOfDay(StockStart) - 15
        /\ MinuteOfDay(end_time(market)) = MinuteOfDay(StockEnd) + 15)

----------------------------------------------------------------------------
(* Frame of an update (checked under SpecChart)                            *)

\* C30: an update for an instrument changes only that instrument's price
\* cells of the last row, or appends one row: every earlier row, the price
\* cells of the other instruments, the key and the position of the last row
\* stay as they were, and when a row is appended the former last row too.
C30_UpdateFrame ==
    [][UpdateStep =>
        LET n == Len(chart)
        IN  /\ Len(chart') \in {n, n + 1}
            /\ \A i \in 1..(n - 1) : chart'[i] = chart[i]
            /\ Len(chart') = n + 1 => chart'[n] = chart[n]
            /\ chart'[n].date = chart[n].date
            /\ chart'[n].time = chart[n].time
            /\ chart'[n].position = chart[n].position
            /\ \A c \in Codes \ {last'.code} : chart'[n].ohlc[c] = chart[n].ohlc[c]
      ]_vars

\* an update changed the cells of c1 in the last row of a chart that holds a
\* position and in which the other instrument has traded in that minute
C30_Witness ==
    /\ last.name = "update" /\ last.branch = "update" /\ last.changed
    /\ last.code = "c1"
    /\ Len(chart) = last.rows
    /\ chart[Len(chart)].position = "c1"
    /\ chart[Len(chart)].ohlc["c2"] = Bar(2, 2, 2, 2)
    /\ chart[Len(chart)].ohlc["c1"].high = 3

----------------------------------------------------------------------------
(* Persistence of the position (checked under Spec)                        *)

\* C31: a newly appended row carries the position of the row that was last
\* at the moment of the append, and no step other than the position write of
\* a transition changes the position of the last row: the position recorded
\* by the last transition stays the last row's position over any number of
\* bucket advances until the next transition.
C31_PositionCarriedForward ==
    [][/\ Len(chart') = Len(chart) + 1
          => chart'[Len(chart')].position = chart[Len(chart)].position
       /\ last'.name # "return" => Position(chart') = Position(chart)]_vars

\* an entry was recorded in the last bootstrap row of a chart without
\* position, and a later tick has appended the row of the next bucket
C31_Witness ==
    /\ last.name = "cur" /\ last.branch = "append"
    /\ Len(chart) = BootstrapBars + 1
    /\ chart[1].position = NoPosition
    /\ orders # <<>>
    /\ orders[1].call.side = "entry"
    /\ chart[BootstrapBars].position = orders[1].call.code
    /\ Position(chart) = orders[1].call.code

----------------------------------------------------------------------------
(* Unset cells in the windows (checked under SpecSignal)                   *)

\* a window without the rows whose cell is unset
WithoutUnset(s) == SelectSeq(s, LAMBDA x : x # NaN)

\* the window column[a:-1] of the code, populated cells only
PopulatedWindow(ch, field, code, a) ==
    WithoutUnset(PySlice(Column(ch, field, code), a, -1))

\* the result of buy_signal when every window is replaced by the same window
\* without its unset rows
BuyOnPopulated(ch, code, cur_price, cur_time, m) ==
    /\ cur_time \div 100 > start_time(m) + 130
    /\ cur_time \div 100 < end_time(m) - 10
    /\ PyMin(PopulatedWindow(ch, "low", code, -121))
          > PyMin(PopulatedWindow(ch, "low", code, -361))
    /\ PyMin(PopulatedWindow(ch, "high", code, -76))
          > PyMin(PopulatedWindow(ch, "high", code, -361))
    /\ cur_price > PyMax(PopulatedWindow(ch, "high", code, -121))

\* the same for sell_signal
SellOnPopulated(ch, code, cur_price, cur_time, m) ==
    \/ cur_time \div 100 > end_time(m) - 10
    \/ cur_price < PyMin(PopulatedWindow(ch, "low", code, -121))
    \/ 100 * cur_price < 96 * PyMax(PopulatedWindow(ch, "high", code, -121))

\* C32: the minima and maxima of the windows of buy_signal and sell_signal
\* are taken over populated cells only: a row of a window whose cell for the
\* instrument is unset does not change the result of the signal compared
\* with the same window without that row.
C32_UnsetCellsExcluded ==
    (/\ last.name \in {"buy_signal", "sell_signal"}
     /\ last.raised = ""
     /\ PopulatedWindow(chart, "low", last.code, -121) # <<>>
     /\ PopulatedWindow(chart, "high", last.code, -76) # <<>>)
    => last.fired =
          IF last.name = "buy_signal"
          THEN BuyOnPopulated(chart, last.code, last.cprice, last.timess, market)
          ELSE SellOnPopulated(chart, last.code, last.cprice, last.timess, market)

----------------------------------------------------------------------------
(* Termination of a request (checked under SpecRequestFair)                *)

\* C33: every request eventually finishes: it returns once the stop event
\* is signalled, returns when a wait times out, raises RuntimeError on an
\* unexpected wait result, and never keeps waiting forever, whatever
\* messages wake the loop up before the answer.
C33_RequestFinishes == Waiting ~> ~Waiting

----------------------------------------------------------------------------
(* Relations between the signals (checked under SpecSignal)                *)

\* C34: for every chart, code, positive price and time on which both
\* signals evaluate without error, buy_signal and sell_signal are never both
\* true.
C34_NeverBothSignals ==
    (last.name \in {"buy_signal", "sell_signal"} /\ last.raised = "")
    => ~(/\ buy_signal(chart, last.code, last.cprice, last.timess, market)
         /\ sell_signal(chart, last.code, last.cprice, last.timess, market))

\* buy_signal returned true
C34_Witness ==
    /\ last.name = "buy_signal"
    /\ last.raised = ""
    /\ last.fired
    /\ ~sell_signal(chart, last.code, last.cprice, last.timess, market)

\* C37: buy_signal returns false for every chart of 2 to 121 rows (120 or
\* fewer completed bars), whatever the price and the time.
C37_NoEntryBefore120Bars ==
    (last.name = "buy_signal" /\ last.rows >= 2 /\ last.rows <= 121)
    => (last.raised = "" /\ ~last.fired)

\* 120 completed bars, the oldest one a dip, a price above every high, a time
\* inside both filters: every condition but the low trend holds
C37_Witness ==
    /\ last.name = "buy_signal"
    /\ last.rows = 121
    /\ ~last.fired
    /\ chart[1].ohlc[last.code] = MarkCell("dip")
    /\ LET conditions == buy_conditions(chart, last.code, last.cprice,
                                        last.timess, market)
       IN  conditions[1] /\ conditions[2] /\ ~conditions[3] /\ conditions[5]

----------------------------------------------------------------------------
(* Sequence of the orders (checked under Spec)                             *)

\* the position the listener started with: the bootstrap rows all carry it,
\* and positions are written into the last row only
InitialPosition == chart[1].position

\* C35: the orders of one dispatcher strictly alternate between entry and
\* exit, the first one is an entry when the initial position is FLAT and an
\* exit when it is HOLDING, and every exit is for the code of the most recent
\* entry (or for the code held initially).
C35_OrdersAlternate ==
    /\ \A i \in 1..(Len(orders) - 1) : orders[i].call.side # orders[i + 1].call.side
    /\ orders # <<>> =>
          orders[1].call.side = IF InitialPosition = NoPosition THEN "entry" ELSE "exit"
    /\ \A i \in 1..Len(orders) :
          orders[i].call.side = "exit" =>
             orders[i].call.code = IF i = 1 THEN InitialPosition
                                   ELSE orders[i - 1].call.code

\* C38: in the stock and in the futures dispatcher the order of the
\* HOLDING(c) to FLAT transition is a sell ('1'), the opposite side of the
\* order of the FLAT to HOLDING(c) transition, which is a buy ('2').
C38_ExitIsOppositeSide ==
    \A i \in 1..Len(orders) :
        orders[i].call.buysell = IF orders[i].call.side = "entry" THEN "2" ELSE "1"

----------------------------------------------------------------------------
(* Keys of the rows (checked under SpecChart)                              *)

\* C36: starting from a chart whose rows have pairwise distinct (date, time)
\* keys, after any sequence of updates with ticks in any order no two rows
\* share a key.
C36_DistinctKeys ==
    \A i, j \in 1..Len(chart) :
        i # j => (chart[i].date # chart[j].date \/ chart[i].time # chart[j].time)

\* after the bar of 09:32 was appended, a tick of the minute before arrived:
\* its bucket is the key of the second row, and no row was appended
C36_Witness ==
    /\ last.name = "update"
    /\ last.rows = 3
    /\ Len(chart) = 3
    /\ chart[2].date = Today
    /\ Bucket(last.timess, end_time(market)) = chart[2].time
    /\ chart[3].time > chart[2].time

----------------------------------------------------------------------------
(* Position at the halt (checked under SpecClose)                          *)

\* C39: whenever the halt is requested while a current-price tick of
\* instrument c is processed, the position at that moment is not HOLDING(c):
\* a tick of the held instrument that triggers the halt has exited it
\* earlier in its handling, and the tick that triggers the halt issues no
\* entry order.
C39_FlatOfOwnCodeAtHalt ==
    [][stops' = stops + 1 =>
          /\ last'.name \in {"cur", "return"}
          /\ Position(chart') # last'.code
          /\ last'.name = "cur" => (Position(chart) # last'.code /\ orders' = orders)
          /\ last'.name = "return" =>
                (/\ Returning.side = "exit"
                 /\ Returning.code = last'.code
                 /\ Position(chart') = NoPosition)]_vars

\* the tick of the held instrument at the session end sold it and then
\* requested the halt
C39_Witness ==
    /\ last.name = "return"
    /\ last.halted
    /\ stops = 1
    /\ chart[1].position = "c1"
    /\ last.code = "c1"
    /\ Len(orders) = 1
    /\ orders[1].call.side = "exit"
    /\ Position(chart) = NoPosition

============================================================================
